---- MODULE Spec2Model ----
(***************************************************************************)
(* Verification-attempt ledger and validation gate of the Ex-Employee      *)
(* Verification Portal.                                                    *)
(*                                                                         *)
(* POST /api/verify/validate-employee is an async handler: every await on  *)
(* the store is a point where other requests (and the unblock-verifier     *)
(* script) interleave.  Each request is a process whose pc names the await *)
(* it is about to execute.                                                 *)
(***************************************************************************)
EXTENDS Integers, Sequences, FiniteSets, TLC

\* ------------------------------------------------------------------ bounds
NReq == 4
MaxAdminRuns == 1
MaxNameLen == 3
NOtp == 2

Reqs == 1..NReq
OtpReqs == 1..NOtp

\* --------------------------------------------------------------- constants
MAX_ATTEMPTS == 3

\* otp.service.js: attempts per OTP, seconds of validity, seconds between
\* two requests
MAX_OTP_ATTEMPTS == 3
OTP_EXPIRY_MINUTES == 5
OTP_EXPIRY_SECONDS == OTP_EXPIRY_MINUTES * 60
OTP_COOLDOWN_SECONDS == 60
\* seconds in one step of the OTP clock
OtpStep == 30


\* useInactivityTimeout.js, in milliseconds
INACTIVITY_TIMEOUT == 3600000
WARNING_THRESHOLD == 300000
CHECK_INTERVAL == 30000
COUNTDOWN_INTERVAL == 1000

None == "none"
NoDoc == [absent |-> TRUE]

\* ------------------------------------------------ strings as char sequences
UpperOf == [a |-> "A", e |-> "E", j |-> "J", s |-> "S", c |-> "C", z |-> "Z"]
LowerOf == [A |-> "a", E |-> "e", J |-> "j", S |-> "s", C |-> "c", Z |-> "z",
            Gmail |-> "gmail", COM |-> "com"]

ToUpperCase(str) ==
    [i \in 1..Len(str) |-> IF str[i] \in DOMAIN UpperOf THEN UpperOf[str[i]] ELSE str[i]]

ToLowerCase(str) ==
    [i \in 1..Len(str) |-> IF str[i] \in DOMAIN LowerOf THEN LowerOf[str[i]] ELSE str[i]]

RECURSIVE TrimStart(_)
TrimStart(str) ==
    IF str # <<>> /\ Head(str) = " " THEN TrimStart(Tail(str)) ELSE str

RECURSIVE TrimEnd(_)
TrimEnd(str) ==
    IF str # <<>> /\ str[Len(str)] = " " THEN TrimEnd(SubSeq(str, 1, Len(str) - 1)) ELSE str

Trim(str) == TrimEnd(TrimStart(str))

RemoveChar(str, ch) == SelectSeq(str, LAMBDA x : x # ch)

\* submittedName / officialName: name.toLowerCase().trim()
NormalizeName(name) == Trim(ToLowerCase(name))

\* mutant: periods and spaces are both removed before the one comparison
NamesMatchAllStripped(name, official) ==
    RemoveChar(RemoveChar(NormalizeName(name), "."), " ")
        = RemoveChar(RemoveChar(NormalizeName(official), "."), " ")

NamesMatch(name, official) ==
    LET submittedName == NormalizeName(name)
        officialName == NormalizeName(official)
    IN  \/ submittedName = officialName
        \/ RemoveChar(submittedName, ".") = RemoveChar(officialName, ".")
        \/ RemoveChar(submittedName, " ") = RemoveChar(officialName, " ")

\* the three comparison keys of a name
PlainKey(name) == NormalizeName(name)
PeriodKey(name) == RemoveChar(NormalizeName(name), ".")
SpaceKey(name) == RemoveChar(NormalizeName(name), " ")

NameKeys(name) ==
    [plain |-> PlainKey(name), noPeriods |-> PeriodKey(name),
     noSpaces |-> SpaceKey(name)]

\* employeeId.toUpperCase().trim()
NormalizeEmployeeId(employeeId) == Trim(ToUpperCase(employeeId))

\* ------------------------------------------------------------ the data set
VerifierIds == {"v1", "v2"}

\* the employees collection: employeeId -> official name ("S A" stands for
\* the sample record EMP006, "S Sathish")
Employees == [k \in {<<"E", "1">>} |-> <<"S", " ", "A">>]

\* bodies of well-formed requests: the right name, a wrong name, an unknown id
VerifierBodies == {[employeeId |-> <<"e", "1">>, name |-> <<"s", ".", " ", "a">>],
                   [employeeId |-> <<"e", "1">>, name |-> <<"J">>],
                   [employeeId |-> <<"E", "7">>, name |-> <<"J">>]}

Bodies == VerifierBodies \cup {[employeeId |-> <<>>, name |-> <<"J">>],
                                [employeeId |-> <<"e", "1">>, name |-> <<>>],
                                [employeeId |-> <<" ">>, name |-> <<"J">>]}

\* the keys under which the ledger can hold a document
EmployeeKeys == {NormalizeEmployeeId(b.employeeId) : b \in Bodies}
Pairs == VerifierIds \X EmployeeKeys

\* verifiers collection: _id -> stored (lower-case) email
VerifierEmail == [v1 |-> <<"a", "@", "c">>, v2 |-> <<"e", "@", "c">>]

\* process.argv[2] of scripts/unblock-verifier.js
ScriptEmails == {<<"A", "@", "c">>, <<"E", "@", "c">>, <<"z", "@", "c">>}

\* outcome of extractTokenFromHeader / verifyToken
Tokens == {"missing", "invalid", "admin", "v1"}

\* names the comparison is run on: every string of at most MaxNameLen
\* characters over a letter in both cases, a second letter, the period and
\* the space
NameChars == {"S", "s", "a", ".", " "}
RECURSIVE StringsUpTo(_, _)
StringsUpTo(chars, n) ==
    IF n = 0 THEN {<<>>}
    ELSE LET shorter == StringsUpTo(chars, n - 1)
         IN  shorter \cup {Append(str, ch) : str \in shorter, ch \in chars}
\* "S a", "S. a", "Sa": one name written with a space, with a period and a
\* space, and with neither
NameVariants == {<<"S", " ", "a">>, <<"S", ".", " ", "a">>, <<"S", "a">>}
Names == StringsUpTo(NameChars, MaxNameLen) \cup NameVariants

\* e-mail addresses, written in pieces: "@", ".", " " and runs of other
\* characters
CompanyEmail == <<"a", "@", "acme", ".", "com">>
OtpEmails == {<<>>,
              <<"a", "@", "acme">>,
              CompanyEmail,
              <<"A", "@", "acme", ".", "com">>,
              <<"a", "@", "gmail", ".", "com">>,
              <<"a", "@", "Gmail", ".", "COM">>}
\* { email: email.toLowerCase() }: the keys of the otps collection
OtpKeys == {ToLowerCase(e) : e \in OtpEmails \ {<<>>}}
\* what generateOTP can return, and what a caller can submit
OtpCodes == {"111111", "222222"}

VARIABLES
    attempts,        \* verification_attempts collection, by (verifierId, employeeId)
    pc,              \* per request: the await it is about to execute
    decoded,         \* per request: decoded.id of the verified token
    body,            \* per request: { employeeId, name }
    employee,        \* per request: result of findEmployeeById
    attemptResult,   \* per request: result of incrementVerificationAttempt
    response,        \* per request: the NextResponse returned
    verifiers,       \* verifiers collection: flags per verifier id
    adminPc,         \* unblock-verifier script: the await it is about to execute
    adminVerifier,   \* unblock-verifier script: verifier._id found for the email
    adminRuns,       \* number of runs of the script so far
    adminLog,        \* what the last run of the script printed last
    failedResponses, \* history: failure responses returned per pair since its last reset
    cmpPc,           \* name comparison run on its own: where it stands
    cmpName,         \* name of the request body
    cmpOfficial,     \* employee.name
    namesMatch,      \* the value of namesMatch
    cmpNext,         \* the ledger call the handler goes on to
    cmpKeys,         \* the comparison keys of cmpName
    cmpRekeyed,      \* the comparison keys of each of those keys
    session,         \* localStorage holds verifier_session or admin_session
    elapsedTime,     \* Date.now() - lastActivityTime; Unset: no lastActivityTime key
    showWarning,     \* useState
    timeRemaining,   \* useState
    isLoggedIn,      \* useState
    checkArmed,      \* the interval of checkIntervalRef is running
    checkDue,        \* its callback is due
    countdownArmed,  \* the interval of countdownIntervalRef is running
    countdownDue,    \* callbacks of it that are due
    pathname,        \* where the router stands
    checked,         \* history: the remaining time the last step's check computed
    otps,            \* otps collection, by lower-cased email
    registered,      \* emails of the verifiers that verify-otp registered
    otpPc,           \* per send-otp / verify-otp request: the await it is about to execute
    otpKind,         \* per request: "send" or "verify"
    otpEmail,        \* per request: body.email
    otpCode,         \* per request: body.otp
    otpRecord,       \* per request: otpRecord read by verifyOTP
    lastResponse,    \* the NextResponse last returned, with the request it answers
    sinceIssued,     \* history: seconds since the last OTP was stored, per email
    guesses,         \* history: codes compared with the stored OTP, per email
    verified         \* history: verifyOTP calls that succeeded on the OTP last stored, per email

reqVars == <<pc, decoded, body, employee, attemptResult, response>>
adminVars == <<verifiers, adminPc, adminVerifier, adminRuns, adminLog>>
history == <<failedResponses>>
nameVars == <<cmpPc, cmpName, cmpOfficial, namesMatch, cmpNext, cmpKeys, cmpRekeyed>>
ledgerVars == <<attempts, pc, decoded, body, employee, attemptResult, response,
                verifiers, adminPc, adminVerifier, adminRuns, adminLog,
                failedResponses>>
hookVars == <<session, elapsedTime, showWarning, timeRemaining, isLoggedIn,
              checkArmed, checkDue, countdownArmed, countdownDue, pathname, checked>>
\* what the validate-employee handler and the unblock script never touch
otpVars == <<otps, registered, otpPc, otpKind, otpEmail, otpCode, otpRecord,
             lastResponse, sinceIssued, guesses, verified>>
otherVars == <<nameVars, hookVars, otpVars>>
vars == <<ledgerVars, otherVars>>

\* ------------------------------------------------------------- collections
\* VerificationAttemptSchema: one document per (verifierId, employeeId).
\* Dates are abstracted to the id of the request whose new Date() wrote them
\* (0: never written / null); _id is the id of the request whose upsert
\* created the document.
NewDoc(r) ==
    [_id |-> r, attemptCount |-> 0, isBlocked |-> FALSE, blockedAt |-> 0,
     lastAttemptAt |-> r]

\* mutant: the pre-check queries with a key that matches no document
IsVerificationBlockedMissed(doc) == FALSE

\* isVerificationBlocked: attempt?.isBlocked || false
IsVerificationBlocked(doc) ==
    IF doc = NoDoc THEN FALSE ELSE doc.isBlocked

\* mutant: the upsert inserts the schema default and does not count the
\* attempt that created the document
IncrementDocInsertZero(doc, r) ==
    IF doc = NoDoc THEN NewDoc(r)
    ELSE [doc EXCEPT !.attemptCount = @ + 1, !.lastAttemptAt = r]

\* findOneAndUpdate(..., { $inc: { attemptCount: 1 }, $set: { lastAttemptAt } },
\*                  { upsert: true, new: true })
IncrementDoc(doc, r) ==
    LET base == IF doc = NoDoc THEN NewDoc(r) ELSE doc
    IN  [base EXCEPT !.attemptCount = @ + 1, !.lastAttemptAt = r]

\* mutant: the threshold compared with > instead of >=
MaxReachedStrict(attempt) ==
    attempt.attemptCount > MAX_ATTEMPTS /\ ~attempt.isBlocked

\* attempt.attemptCount >= MAX_ATTEMPTS && !attempt.isBlocked
MaxReached(attempt) ==
    attempt.attemptCount >= MAX_ATTEMPTS /\ ~attempt.isBlocked

\* findByIdAndUpdate(attempt._id, { $set: { isBlocked: true, blockedAt } })
BlockDoc(doc, id, r) ==
    IF doc # NoDoc /\ doc._id = id
    THEN [doc EXCEPT !.isBlocked = TRUE, !.blockedAt = r]
    ELSE doc

\* mutant: the reset clears the block but keeps the count
ResetDocKeepCount(doc) ==
    IF doc = NoDoc THEN doc
    ELSE [doc EXCEPT !.isBlocked = FALSE, !.blockedAt = 0]

\* findOneAndUpdate(..., { $set: { attemptCount: 0, isBlocked: false,
\*                                 blockedAt: null } }, { new: true })
ResetDoc(doc) ==
    IF doc = NoDoc THEN doc
    ELSE [doc EXCEPT !.attemptCount = 0, !.isBlocked = FALSE, !.blockedAt = 0]

\* findEmployeeById: Employee.findOne({ employeeId })
FindEmployeeById(employeeId) ==
    IF employeeId \in DOMAIN Employees
    THEN [read |-> TRUE, found |-> TRUE, name |-> Employees[employeeId]]
    ELSE [read |-> TRUE, found |-> FALSE, name |-> <<>>]

Unread == [read |-> FALSE, found |-> FALSE, name |-> <<>>]

\* --------------------------------------------------------------- responses
BLOCKED_MESSAGE == <<"Maximum attempts reached. Please reach out to exit team">>

TokenRequired == [status |-> 401, success |-> FALSE,
                  message |-> <<"Access token is required">>]
VerifierRequired == [status |-> 403, success |-> FALSE,
                     message |-> <<"Verifier access required">>]
InvalidToken == [status |-> 401, success |-> FALSE,
                 message |-> <<"Invalid or expired token">>]
FieldsRequired == [status |-> 400, success |-> FALSE,
                   message |-> <<"Employee ID and Name are required">>]
BlockedResponse == [status |-> 403, success |-> FALSE,
                    message |-> BLOCKED_MESSAGE, isBlocked |-> TRUE]
AcceptedResponse == [status |-> 200, success |-> TRUE,
                     message |-> <<"Employee validated successfully">>]
ErrorResponse == [status |-> 500, success |-> FALSE,
                  message |-> <<"Validation failed. Please try again.">>]
NoResponse == [status |-> 0]

MismatchMessage(remainingAttempts) ==
    <<"Employee ID and Name do not match. Please check and try again.",
      remainingAttempts,
      IF remainingAttempts # 1 THEN "attempts remaining" ELSE "attempt remaining">>

\* mutant: remainingAttempts computed from the count before the increment
FailureResponseStale(found, result) ==
    LET remainingAttempts == MAX_ATTEMPTS - (result.attemptCount - 1)
    IN  IF result.justBlocked
        THEN BlockedResponse
        ELSE [status |-> IF found THEN 400 ELSE 404, success |-> FALSE,
              message |-> MismatchMessage(remainingAttempts),
              remainingAttempts |-> remainingAttempts]

\* the two failure branches of POST: employee not found / names differ
FailureResponse(found, result) ==
    LET remainingAttempts == MAX_ATTEMPTS - result.attemptCount
    IN  IF result.justBlocked
        THEN BlockedResponse
        ELSE [status |-> IF found THEN 400 ELSE 404, success |-> FALSE,
              message |-> MismatchMessage(remainingAttempts),
              remainingAttempts |-> remainingAttempts]

\* the closed variant of the interface: which outcome a response encodes
Kind(resp) ==
    CASE resp.status = 0 -> "Pending"
      [] resp.status = 200 -> "Accepted"
      [] resp.status = 500 -> "StoreUnavailable"
      [] "remainingAttempts" \in DOMAIN resp -> "Rejected"
      [] "isBlocked" \in DOMAIN resp -> "Blocked"
      [] OTHER -> "InvalidRequest"

\* mutant: only the employee ID is checked for presence
MissingFieldsIdOnly(input) == input.employeeId = <<>>

\* !employeeId || !name
MissingFields(input) == input.employeeId = <<>> \/ input.name = <<>>

\* mutant: the failure of a ledger write is swallowed and the handler answers
\* as if the operation had been applied
CatchResponseFailOpen(op) ==
    IF op = "resetVerificationAttempt"
    THEN AcceptedResponse
    ELSE [status |-> 400, success |-> FALSE, message |-> MismatchMessage(0),
          remainingAttempts |-> 0]

\* catch (error) { ... status: 500 }, whichever awaited call threw
CatchResponse(op) == ErrorResponse

\* ------------------------------------------------------------------- state
NoBody == [employeeId |-> <<>>, name |-> <<>>]
NoResult == [absent |-> TRUE]

\* mutant: the ledger is addressed by the verifier alone
PairOfAnyEmployee(r) == <<decoded[r], CHOOSE k \in EmployeeKeys : TRUE>>

\* { verifierId, employeeId: employeeId.toUpperCase().trim() }
PairOf(r) == <<decoded[r], NormalizeEmployeeId(body[r].employeeId)>>

LedgerInit ==
    /\ attempts = [p \in Pairs |-> NoDoc]
    /\ pc = [r \in Reqs |-> "idle"]
    /\ decoded = [r \in Reqs |-> None]
    /\ body = [r \in Reqs |-> NoBody]
    /\ employee = [r \in Reqs |-> Unread]
    /\ attemptResult = [r \in Reqs |-> NoResult]
    /\ response = [r \in Reqs |-> NoResponse]
    /\ verifiers = [v \in VerifierIds |-> [isActive |-> TRUE, isEmailVerified |-> FALSE]]
    /\ adminPc = "idle"
    /\ adminVerifier = None
    /\ adminRuns = 0
    /\ adminLog = None
    /\ failedResponses = [p \in Pairs |-> 0]

NoKeys == [plain |-> <<>>, noPeriods |-> <<>>, noSpaces |-> <<>>]

\* no comparison is run on its own
NamesIdle ==
    /\ cmpPc = "off"
    /\ cmpName = <<>>
    /\ cmpOfficial = <<>>
    /\ namesMatch = FALSE
    /\ cmpNext = None
    /\ cmpKeys = NoKeys
    /\ cmpRekeyed = NoKeys

\* ------------------------------------------------- useInactivityTimeout.js
\* Time advances in steps of CHECK_INTERVAL.  elapsedTime stands for the
\* clock and the stored lastActivityTime together; past the timeout every
\* value acts alike, so it is kept up to the first step beyond it.
Unset == -1
MaxElapsed == INACTIVITY_TIMEOUT + CHECK_INTERVAL
NoCheck == [made |-> FALSE, remainingTime |-> 0]

\* the hook's state as one record
Hook ==
    [session |-> session, elapsedTime |-> elapsedTime, showWarning |-> showWarning,
     timeRemaining |-> timeRemaining, isLoggedIn |-> isLoggedIn,
     checkArmed |-> checkArmed, countdownArmed |-> countdownArmed,
     pathname |-> pathname, checked |-> NoCheck]

SetHook(h) ==
    /\ session' = h.session
    /\ elapsedTime' = h.elapsedTime
    /\ showWarning' = h.showWarning
    /\ timeRemaining' = h.timeRemaining
    /\ isLoggedIn' = h.isLoggedIn
    /\ checkArmed' = h.checkArmed
    /\ countdownArmed' = h.countdownArmed
    /\ pathname' = h.pathname
    /\ checked' = h.checked

\* mounted on a page with nobody logged in: the interval effect has made its
\* initial check and set the periodic one
HookInit ==
    /\ session = FALSE
    /\ elapsedTime = Unset
    /\ showWarning = FALSE
    /\ timeRemaining = WARNING_THRESHOLD
    /\ isLoggedIn = FALSE
    /\ checkArmed = TRUE
    /\ checkDue = FALSE
    /\ countdownArmed = FALSE
    /\ countdownDue = 0
    /\ pathname = "/"
    /\ checked = NoCheck

\* updateActivity, lines 37-49
UpdateActivity(h) ==
    IF ~h.session THEN h
    ELSE [h EXCEPT !.elapsedTime = 0,
                   !.showWarning = FALSE,
                   !.timeRemaining = IF h.showWarning THEN WARNING_THRESHOLD ELSE @]

\* logout, lines 52-78
Logout(h) ==
    [h EXCEPT !.session = FALSE, !.elapsedTime = Unset,
              !.checkArmed = FALSE, !.countdownArmed = FALSE,
              !.showWarning = FALSE, !.isLoggedIn = FALSE,
              !.pathname = "/"]

\* mutant: the warning starts strictly inside the threshold
WarningDueStrict(remainingTime) == remainingTime < WARNING_THRESHOLD

\* remainingTime <= WARNING_THRESHOLD
WarningDue(remainingTime) == remainingTime <= WARNING_THRESHOLD

\* checkInactivity, lines 88-121
CheckInactivity(h) ==
    IF ~h.session THEN [h EXCEPT !.isLoggedIn = FALSE]
    ELSE LET g == [h EXCEPT !.isLoggedIn = TRUE]
             remainingTime == INACTIVITY_TIMEOUT - g.elapsedTime
         IN  IF g.elapsedTime = Unset THEN UpdateActivity(g)
             ELSE IF remainingTime <= 0
                  THEN Logout([g EXCEPT !.checked = [made |-> TRUE,
                                                     remainingTime |-> remainingTime]])
             ELSE IF WarningDue(remainingTime)
                  THEN [g EXCEPT !.showWarning = TRUE,
                                 !.timeRemaining = remainingTime,
                                 !.checked = [made |-> TRUE,
                                              remainingTime |-> remainingTime]]
             ELSE [g EXCEPT !.showWarning = FALSE,
                            !.timeRemaining = WARNING_THRESHOLD,
                            !.checked = [made |-> TRUE,
                                         remainingTime |-> remainingTime]]

\* The render that follows a handler.  checkInactivity changes identity only
\* with showWarning (through updateActivity), so the interval effect of lines
\* 187-201 runs again exactly when showWarning changed: it clears the interval
\* the ref holds, checks at once and sets a new interval.  The countdown
\* effect of lines 204-229 keeps its interval while showWarning is true.
Effects(before, after) ==
    IF after.showWarning = before.showWarning THEN after
    ELSE LET again == CheckInactivity([after EXCEPT !.checkArmed = FALSE])
         IN  [again EXCEPT !.checkArmed = TRUE,
                           !.countdownArmed = again.showWarning]

\* a handler ran: its state updates, then the effects of the render
Handle(after) ==
    LET final == Effects(Hook, after)
    IN  /\ SetHook(final)
        /\ checkDue' = IF final.checkArmed /\ (final.showWarning = showWarning)
                       THEN checkDue ELSE FALSE
        /\ countdownDue' = IF final.countdownArmed /\ (final.showWarning = showWarning)
                           THEN countdownDue ELSE 0

\* ------------------------------------------------------ otp.service.js
\* An otps document.  expiresAt and createdAt are written together by
\* storeOTP, so both are read off age, the seconds since then.
NoOtp == [absent |-> TRUE]
NoAnswer == [kind |-> None, email |-> <<>>, response |-> NoResponse]
Never == -1
MaxAge == OTP_EXPIRY_SECONDS + OtpStep

OtpInit ==
    /\ otps = [k \in OtpKeys |-> NoOtp]
    /\ registered = {}
    /\ otpPc = [r \in OtpReqs |-> "idle"]
    /\ otpKind = [r \in OtpReqs |-> None]
    /\ otpEmail = [r \in OtpReqs |-> <<>>]
    /\ otpCode = [r \in OtpReqs |-> None]
    /\ otpRecord = [r \in OtpReqs |-> NoOtp]
    /\ lastResponse = NoAnswer
    /\ sinceIssued = [k \in OtpKeys |-> Never]
    /\ guesses = [k \in OtpKeys |-> 0]
    /\ verified = [k \in OtpKeys |-> 0]

\* send-otp/route.js 26: /^[^\s@]+@[^\s@]+\.[^\s@]+$/
EmailRegexTest(email) ==
    LET ats == {i \in 1..Len(email) : email[i] = "@"}
    IN  /\ Cardinality(ats) = 1
        /\ \A i \in 1..Len(email) : email[i] # " "
        /\ \E at \in ats :
              /\ at > 1
              /\ \E dot \in 1..Len(email) :
                    email[dot] = "." /\ dot > at + 1 /\ dot < Len(email)

\* email.split('@')[1]
SplitAtSecond(email) ==
    LET ats == {i \in 1..Len(email) : email[i] = "@"}
        first == CHOOSE i \in ats : \A j \in ats : i <= j
        later == {i \in ats : i > first}
        last == IF later = {} THEN Len(email)
                ELSE (CHOOSE i \in later : \A j \in later : i <= j) - 1
    IN  SubSeq(email, first + 1, last)

\* mutant: the domain is compared as typed
EmailDomainAsTyped(email) == SplitAtSecond(email)

\* email.split('@')[1].toLowerCase()
EmailDomain(email) == ToLowerCase(SplitAtSecond(email))

blockedDomains ==
    {<<"gmail", ".", "com">>, <<"yahoo", ".", "com">>, <<"hotmail", ".", "com">>,
     <<"outlook", ".", "com">>, <<"aol", ".", "com">>, <<"icloud", ".", "com">>}

\* send-otp responses
EmailRequired == [status |-> 400, success |-> FALSE, message |-> <<"Email is required">>]
EmailInvalid == [status |-> 400, success |-> FALSE,
                 message |-> <<"Please enter a valid email address">>]
PersonalEmail == [status |-> 400, success |-> FALSE,
                  message |-> <<"Please use your company email address. Personal emails are not allowed.">>]
RateLimited(cooldownSeconds) ==
    [status |-> 429, success |-> FALSE,
     message |-> <<"Please wait", cooldownSeconds, "seconds before requesting a new OTP.">>,
     cooldownSeconds |-> cooldownSeconds]
StoreFailed == [status |-> 500, success |-> FALSE,
                message |-> <<"Failed to generate OTP. Please try again.">>]
OtpSent(email) == [status |-> 200, success |-> TRUE,
                   message |-> <<"OTP sent to", email, "Valid for", OTP_EXPIRY_MINUTES, "minutes.">>,
                   expiryMinutes |-> OTP_EXPIRY_MINUTES]

\* verify-otp responses
OtpFieldsRequired == [status |-> 400, success |-> FALSE,
                      message |-> <<"Email and OTP are required">>]
OtpRejected(message) == [status |-> 400, success |-> FALSE, message |-> message]
LoginSuccessful(email) ==
    [status |-> 200, success |-> TRUE, message |-> <<"Login successful">>,
     data |-> [token |-> [email |-> email, role |-> "verifier"]]]
OtpRouteError == [status |-> 500, success |-> FALSE,
                  message |-> <<"Verification failed. Please try again.">>]

\* canRequestOTP, lines 140-163: the record read, at the time of the read
CanRequestOTP(otpDoc) ==
    IF otpDoc = NoOtp THEN [canRequest |-> TRUE]
    ELSE IF otpDoc.age < OTP_COOLDOWN_SECONDS
         THEN [canRequest |-> FALSE,
               cooldownSeconds |-> OTP_COOLDOWN_SECONDS - otpDoc.age]
    ELSE [canRequest |-> TRUE]

\* storeOTP, lines 50-62: updateOne({ email }, { $set: otpData }, { upsert: true })
StoredOtp(code) == [otp |-> code, age |-> 0, attempts |-> 0]

\* what verifyOTP goes on to use of the record it read; replaced (history):
\* storeOTP has stored another OTP for the email since; stale (history): the
\* document has been replaced or deleted since
ReadOtp(otpDoc) ==
    [otp |-> otpDoc.otp, attempts |-> otpDoc.attempts, stale |-> FALSE,
     replaced |-> FALSE]

\* the records held by requests in flight for the email are out of date
MarkStale(records, key) ==
    [q \in OtpReqs |->
        IF records[q] # NoOtp /\ ToLowerCase(otpEmail[q]) = key
        THEN [records[q] EXCEPT !.stale = TRUE]
        ELSE records[q]]

\* mutant: the expiry is never reached
OtpExpiredNever(otpDoc) == FALSE

\* new Date() > new Date(otpRecord.expiresAt)
OtpExpired(otpDoc) == otpDoc.age > OTP_EXPIRY_SECONDS

\* updateOne({ email }, { $inc: { attempts: 1 } })
IncAttempts(otpDoc) ==
    IF otpDoc = NoOtp THEN otpDoc ELSE [otpDoc EXCEPT !.attempts = @ + 1]

OtpKey(r) == ToLowerCase(otpEmail[r])

\* storeOTP's upsert puts a new OTP in the place of the one that requests in
\* flight for the email have read
MarkReplaced(records, key) ==
    [q \in OtpReqs |->
        IF records[q] # NoOtp /\ ToLowerCase(otpEmail[q]) = key
        THEN [records[q] EXCEPT !.stale = TRUE, !.replaced = TRUE]
        ELSE records[q]]

\* the handler returns and is free for the next request
OtpReturn(r, kind, email, resp) ==
    /\ otpPc' = [otpPc EXCEPT ![r] = "idle"]
    /\ otpKind' = [otpKind EXCEPT ![r] = None]
    /\ otpEmail' = [otpEmail EXCEPT ![r] = <<>>]
    /\ otpCode' = [otpCode EXCEPT ![r] = None]
    /\ lastResponse' = [kind |-> kind, email |-> email, response |-> resp]

Answer(r, resp) == OtpReturn(r, otpKind[r], otpEmail[r], resp)

DropRecord(r) == otpRecord' = [otpRecord EXCEPT ![r] = NoOtp]

Init ==
    /\ LedgerInit
    /\ NamesIdle
    /\ HookInit
    /\ OtpInit

\* the handler returns; what it held is kept, as of the return, so that the
\* outcome of a finished request can be related to its inputs
Return(r, resp) ==
    /\ pc' = [pc EXCEPT ![r] = "done"]
    /\ response' = [response EXCEPT ![r] = resp]

\* a failure response (Rejected or JustBlocked) is returned for the pair
CountFailure(p) ==
    failedResponses' = [failedResponses EXCEPT ![p] = @ + 1]

\* ---------------------------------------------------- POST validate-employee
\* route.js 24-109: authentication, body validation, the blocked pre-check
\* (a findOne, nothing is written), the employee lookup and the name
\* comparison.  None of these writes shared state and the employees
\* collection never changes, so the whole prefix is observed at the instant
\* of the pre-check read; storeUp = FALSE is a store call of the prefix that
\* throws (route.js 137-145).  Requests are numbered in order of arrival and
\* draw their token and body from the given sets.
Receive(r, tokens, bodies) ==
    /\ pc[r] = "idle"
    /\ IF r = 1 THEN TRUE ELSE pc[r - 1] # "idle"
    /\ \E token \in tokens, input \in bodies, storeUp \in BOOLEAN :
          IF token = "missing" THEN
              /\ Return(r, TokenRequired)
              /\ UNCHANGED <<decoded, body, employee>>
          ELSE IF token = "invalid" THEN
              /\ Return(r, InvalidToken)
              /\ UNCHANGED <<decoded, body, employee>>
          ELSE IF token = "admin" THEN
              /\ Return(r, VerifierRequired)
              /\ UNCHANGED <<decoded, body, employee>>
          ELSE IF MissingFields(input) THEN
              /\ Return(r, FieldsRequired)
              /\ body' = [body EXCEPT ![r] = input]
              /\ UNCHANGED <<decoded, employee>>
          ELSE
              LET normalizedEmployeeId == NormalizeEmployeeId(input.employeeId)
                  found == FindEmployeeById(normalizedEmployeeId)
              IN  /\ decoded' = [decoded EXCEPT ![r] = token]
                  /\ body' = [body EXCEPT ![r] = input]
                  /\ IF ~storeUp THEN
                         /\ Return(r, ErrorResponse)
                         /\ UNCHANGED employee
                     ELSE IF IsVerificationBlocked(attempts[<<token, normalizedEmployeeId>>]) THEN
                         /\ Return(r, BlockedResponse)
                         /\ UNCHANGED employee
                     ELSE
                         /\ employee' = [employee EXCEPT ![r] = found]
                         /\ pc' = [pc EXCEPT ![r] =
                                IF found.found /\ NamesMatch(input.name, found.name)
                                THEN "resetVerificationAttempt"
                                ELSE "incrementVerificationAttempt"]
                         /\ UNCHANGED response
    /\ UNCHANGED <<attempts, attemptResult, adminVars, otherVars, history>>

\* smtpService.js 632-643 and 653, route.js 82-96 / 112-126: the atomic
\* upsert-and-increment; below the maximum the response follows without
\* another await
Increment(r) ==
    /\ pc[r] = "incrementVerificationAttempt"
    /\ LET attempt == IncrementDoc(attempts[PairOf(r)], r)
           result == attempt @@ [justBlocked |-> FALSE]
       IN  /\ attempts' = [attempts EXCEPT ![PairOf(r)] = attempt]
           /\ attemptResult' = [attemptResult EXCEPT ![r] = result]
           /\ IF MaxReached(attempt)
              THEN /\ pc' = [pc EXCEPT ![r] = "findByIdAndUpdate"]
                   /\ UNCHANGED <<response, failedResponses>>
              ELSE /\ Return(r, FailureResponse(employee[r].found, result))
                   /\ CountFailure(PairOf(r))
    /\ UNCHANGED <<decoded, body, employee, adminVars, otherVars>>

\* smtpService.js 646-651, route.js 84-90 / 114-120: the second write, by _id
Block(r) ==
    /\ pc[r] = "findByIdAndUpdate"
    /\ LET result == [attemptResult[r] EXCEPT !.isBlocked = TRUE, !.justBlocked = TRUE]
       IN  /\ attempts' = [attempts EXCEPT ![PairOf(r)] =
                              BlockDoc(@, attemptResult[r]._id, r)]
           /\ attemptResult' = [attemptResult EXCEPT ![r] = result]
           /\ Return(r, FailureResponse(employee[r].found, result))
           /\ CountFailure(PairOf(r))
    /\ UNCHANGED <<decoded, body, employee, adminVars, otherVars>>

\* route.js 129-135, smtpService.js 659-666
Reset(r) ==
    /\ pc[r] = "resetVerificationAttempt"
    /\ attempts' = [attempts EXCEPT ![PairOf(r)] = ResetDoc(@)]
    /\ Return(r, AcceptedResponse)
    /\ failedResponses' = [failedResponses EXCEPT ![PairOf(r)] = 0]
    /\ UNCHANGED <<decoded, body, employee, attemptResult, adminVars, otherVars>>

\* route.js 137-145: an awaited store call throws; the operation is not
\* applied and the catch block answers 500
StoreOps == {"incrementVerificationAttempt", "findByIdAndUpdate",
             "resetVerificationAttempt"}

StoreError(r) ==
    /\ pc[r] \in StoreOps
    /\ Return(r, CatchResponse(pc[r]))
    /\ UNCHANGED <<attempts, decoded, body, employee, attemptResult,
                   adminVars, otherVars, history>>

\* ------------------------------------------------ scripts/unblock-verifier.js
\* Verifier.findOne({ email: email.toLowerCase() })
FindVerifierByEmail(email) ==
    {v \in VerifierIds : VerifierEmail[v] = ToLowerCase(email)}

\* updateMany({ verifierId }, { $set: { attemptCount: 0, isBlocked: false,
\*                                      blockedAt: null } })
UpdateMany(coll, verifierId) ==
    [p \in Pairs |-> IF p[1] = verifierId THEN ResetDoc(coll[p]) ELSE coll[p]]

\* mutant: only the blocked records are deleted
DeleteManyBlocked(coll, verifierId) ==
    [p \in Pairs |-> IF p[1] = verifierId /\ IsVerificationBlocked(coll[p])
                     THEN NoDoc ELSE coll[p]]

\* deleteMany({ verifierId })
DeleteMany(coll, verifierId) ==
    [p \in Pairs |-> IF p[1] = verifierId THEN NoDoc ELSE coll[p]]

\* the line the script printed last: 59, 69, 135-137, 141
NotFound == "Verifier with email not found"
Found == "Found verifier"
Unblocked == "VERIFIER UNBLOCKED SUCCESSFULLY!"
ScriptError == "Error"

ClearHistory(verifierId) ==
    failedResponses' =
        [p \in Pairs |-> IF p[1] = verifierId THEN 0 ELSE failedResponses[p]]

\* lines 54-98: look the verifier up; the finds that follow only print
AdminStart ==
    /\ adminPc = "idle"
    /\ adminRuns < MaxAdminRuns
    /\ adminRuns' = adminRuns + 1
    /\ \E email \in ScriptEmails :
          LET verifier == FindVerifierByEmail(email)
          IN  IF verifier = {}
              THEN /\ adminLog' = NotFound
                   /\ UNCHANGED <<adminPc, adminVerifier>>
              ELSE /\ adminPc' = "updateMany"
                   /\ adminVerifier' = CHOOSE v \in verifier : TRUE
                   /\ adminLog' = Found
    /\ UNCHANGED <<attempts, verifiers, history, reqVars, otherVars>>

\* lines 100-112
AdminUpdateMany ==
    /\ adminPc = "updateMany"
    /\ attempts' = UpdateMany(attempts, adminVerifier)
    /\ ClearHistory(adminVerifier)
    /\ adminPc' = "deleteMany"
    /\ UNCHANGED <<verifiers, adminVerifier, adminRuns, adminLog, reqVars, otherVars>>

\* lines 114-133: the records are deleted; the two updates of the verifier's
\* flags that follow touch a collection no request reads
AdminDeleteMany ==
    /\ adminPc = "deleteMany"
    /\ attempts' = DeleteMany(attempts, adminVerifier)
    /\ ClearHistory(adminVerifier)
    /\ verifiers' = [verifiers EXCEPT ![adminVerifier] =
                        [isActive |-> TRUE, isEmailVerified |-> TRUE]]
    /\ adminPc' = "idle"
    /\ adminVerifier' = None
    /\ adminLog' = Unblocked
    /\ UNCHANGED <<adminRuns, reqVars, otherVars>>

\* lines 140-145: a store call of the script throws; it logs and disconnects
AdminError ==
    /\ adminPc \in {"updateMany", "deleteMany"}
    /\ adminPc' = "idle"
    /\ adminVerifier' = None
    /\ adminLog' = ScriptError
    /\ UNCHANGED <<attempts, verifiers, adminRuns, history, reqVars, otherVars>>

RequestStep(r, tokens, bodies) ==
    \/ Receive(r, tokens, bodies)
    \/ Increment(r)
    \/ Block(r)
    \/ Reset(r)
    \/ StoreError(r)

AdminStep ==
    \/ AdminStart
    \/ AdminUpdateMany
    \/ AdminDeleteMany
    \/ AdminError

\* Concurrent well-formed requests of one verifier, with the script running
\* beside them.
Next ==
    \/ \E r \in Reqs : RequestStep(r, {"v1"}, VerifierBodies)
    \/ AdminStep

Spec == Init /\ [][Next]_vars

\* Attempts made one after the other, well-formed or not: a request arrives
\* only when no other request and no run of the script is under way.
InFlight(r) == pc[r] \notin {"idle", "done"}

SeqNext ==
    \/ \E r \in Reqs :
          /\ adminPc = "idle"
          /\ \A q \in Reqs \ {r} : ~InFlight(q)
          /\ RequestStep(r, Tokens, Bodies)
    \/ /\ \A q \in Reqs : ~InFlight(q)
       /\ AdminStep

SeqSpec == Init /\ [][SeqNext]_vars

\* ------------------------------------------- the name comparison on its own
\* route.js 99-107 applied to any submitted name and any official name
NameInit ==
    /\ LedgerInit
    /\ cmpPc = "compare"
    /\ cmpName \in Names
    /\ cmpOfficial \in Names
    /\ namesMatch = FALSE
    /\ cmpNext = None
    /\ cmpKeys = NoKeys
    /\ cmpRekeyed = NoKeys
    /\ HookInit
    /\ OtpInit

\* route.js 99-109 and 129-130: namesMatch and the branch taken on it
CompareNames ==
    /\ cmpPc = "compare"
    /\ namesMatch' = NamesMatch(cmpName, cmpOfficial)
    /\ cmpNext' = IF namesMatch' THEN "resetVerificationAttempt"
                               ELSE "incrementVerificationAttempt"
    /\ cmpKeys' = NameKeys(cmpName)
    /\ cmpPc' = "compared"
    /\ UNCHANGED <<cmpName, cmpOfficial, cmpRekeyed, ledgerVars, hookVars, otpVars>>

\* each key is taken as a name in its turn and keyed the same way
NormalizeAgain ==
    /\ cmpPc = "compared"
    /\ cmpRekeyed' = [plain |-> PlainKey(cmpKeys.plain),
                      noPeriods |-> PeriodKey(cmpKeys.noPeriods),
                      noSpaces |-> SpaceKey(cmpKeys.noSpaces)]
    /\ cmpPc' = "rekeyed"
    /\ UNCHANGED <<cmpName, cmpOfficial, namesMatch, cmpNext, cmpKeys, ledgerVars,
                   hookVars, otpVars>>

NameNext ==
    \/ CompareNames
    \/ NormalizeAgain

NameSpec == NameInit /\ [][NameNext]_vars

\* ----------------------------------------- POST send-otp, POST verify-otp
notOtpVars == <<ledgerVars, nameVars, hookVars>>

\* send-otp/route.js 14-42, verify-otp 161-170: the body is read and
\* validated.  OtpReqs are the requests that can be in flight together; a
\* new request takes the first free place.
OtpReceive(r, emails, submitted) ==
    /\ otpPc[r] = "idle"
    /\ \A q \in OtpReqs : q < r => otpPc[q] # "idle"
    /\ \E kind \in {"send", "verify"}, email \in emails, code \in submitted :
          IF kind = "send" THEN
              IF email = <<>> THEN OtpReturn(r, kind, email, EmailRequired)
              ELSE IF ~EmailRegexTest(email) THEN OtpReturn(r, kind, email, EmailInvalid)
              ELSE IF EmailDomain(email) \in blockedDomains
                   THEN OtpReturn(r, kind, email, PersonalEmail)
              ELSE /\ otpPc' = [otpPc EXCEPT ![r] = "canRequestOTP"]
                   /\ otpKind' = [otpKind EXCEPT ![r] = kind]
                   /\ otpEmail' = [otpEmail EXCEPT ![r] = email]
                   /\ UNCHANGED <<otpCode, lastResponse>>
          ELSE
              IF email = <<>> THEN OtpReturn(r, kind, email, OtpFieldsRequired)
              ELSE /\ otpPc' = [otpPc EXCEPT ![r] = "findOne"]
                   /\ otpKind' = [otpKind EXCEPT ![r] = kind]
                   /\ otpEmail' = [otpEmail EXCEPT ![r] = email]
                   /\ otpCode' = [otpCode EXCEPT ![r] = code]
                   /\ UNCHANGED lastResponse
    /\ UNCHANGED <<otps, registered, otpRecord, sinceIssued, guesses, verified, notOtpVars>>

\* send-otp/route.js 45-52 with canRequestOTP; a findOne that throws is
\* caught there and answered canRequest: true (lines 164-167).  up: whether
\* the store can answer, fail, or either.
SendCanRequest(r, up) ==
    /\ otpPc[r] = "canRequestOTP"
    /\ \E storeUp \in up :
          LET rateLimitCheck == IF storeUp THEN CanRequestOTP(otps[OtpKey(r)])
                                ELSE [canRequest |-> TRUE]
          IN  IF ~rateLimitCheck.canRequest
              THEN Answer(r, RateLimited(rateLimitCheck.cooldownSeconds))
              ELSE /\ otpPc' = [otpPc EXCEPT ![r] = "storeOTP"]
                   /\ UNCHANGED <<otpKind, otpEmail, otpCode, lastResponse>>
    /\ UNCHANGED <<otps, registered, otpRecord, sinceIssued, guesses, verified, notOtpVars>>

\* send-otp/route.js 54-74 with generateOTP and storeOTP; an updateOne that
\* throws is caught by storeOTP and answered 500
SendStore(r, generated, up) ==
    /\ otpPc[r] = "storeOTP"
    /\ \E code \in generated, storeUp \in up :
          IF storeUp
          THEN /\ otps' = [otps EXCEPT ![OtpKey(r)] = StoredOtp(code)]
               /\ otpRecord' = MarkReplaced(otpRecord, OtpKey(r))
               /\ sinceIssued' = [sinceIssued EXCEPT ![OtpKey(r)] = 0]
               /\ guesses' = [guesses EXCEPT ![OtpKey(r)] = 0]
               /\ verified' = [verified EXCEPT ![OtpKey(r)] = 0]
               /\ Answer(r, OtpSent(otpEmail[r]))
          ELSE /\ Answer(r, StoreFailed)
               /\ UNCHANGED <<otps, otpRecord, sinceIssued, guesses, verified>>
    /\ UNCHANGED <<registered, notOtpVars>>

\* verifyOTP, lines 81-108: the record is read and judged on what was read
VerifyFindOne(r) ==
    /\ otpPc[r] = "findOne"
    /\ LET found == otps[OtpKey(r)]
       IN  IF found = NoOtp
           THEN /\ Answer(r, OtpRejected(<<"No OTP found. Please request a new one.">>))
                /\ UNCHANGED otpRecord
           ELSE /\ otpRecord' = [otpRecord EXCEPT ![r] = ReadOtp(found)]
                /\ otpPc' = [otpPc EXCEPT ![r] =
                       IF OtpExpired(found) THEN "deleteExpired"
                       ELSE IF found.attempts >= MAX_OTP_ATTEMPTS THEN "deleteMaxed"
                       ELSE "updateOne"]
                /\ UNCHANGED <<otpKind, otpEmail, otpCode, lastResponse>>
    /\ UNCHANGED <<otps, registered, sinceIssued, guesses, verified, notOtpVars>>

\* verifyOTP, lines 94, 103 and 126: deleteOne({ email }) removes whatever
\* document the email has by now
VerifyDeleteOne(r) ==
    /\ otpPc[r] \in {"deleteExpired", "deleteMaxed", "deleteUsed"}
    /\ otps' = [otps EXCEPT ![OtpKey(r)] = NoOtp]
    /\ guesses' = [guesses EXCEPT ![OtpKey(r)] = 0]
    /\ verified' = [verified EXCEPT ![OtpKey(r)] =
                       IF otpPc[r] = "deleteUsed" /\ ~otpRecord[r].replaced
                       THEN @ + 1 ELSE @]
    /\ otpRecord' = [MarkStale(otpRecord, OtpKey(r)) EXCEPT ![r] = NoOtp]
    /\ IF otpPc[r] = "deleteExpired"
       THEN Answer(r, OtpRejected(<<"OTP has expired. Please request a new one.">>))
       ELSE IF otpPc[r] = "deleteMaxed"
       THEN Answer(r, OtpRejected(<<"Maximum attempts exceeded. Please request a new OTP.">>))
       ELSE /\ otpPc' = [otpPc EXCEPT ![r] = "register"]
            /\ UNCHANGED <<otpKind, otpEmail, otpCode, lastResponse>>
    /\ UNCHANGED <<registered, sinceIssued, notOtpVars>>

\* verifyOTP, lines 110-123: the increment, then the submitted code is
\* compared with the code that was read
VerifyUpdateOne(r) ==
    /\ otpPc[r] = "updateOne"
    /\ otps' = [otps EXCEPT ![OtpKey(r)] = IncAttempts(@)]
    /\ guesses' = [guesses EXCEPT ![OtpKey(r)] =
                      IF otpRecord[r].stale THEN @ ELSE @ + 1]
    /\ IF otpRecord[r].otp # otpCode[r]
       THEN LET remainingAttempts == MAX_OTP_ATTEMPTS - otpRecord[r].attempts - 1
            IN  /\ Answer(r, OtpRejected(<<"Invalid OTP.", remainingAttempts,
                                            "attempt(s) remaining.">>))
                /\ DropRecord(r)
       ELSE /\ otpPc' = [otpPc EXCEPT ![r] = "deleteUsed"]
            /\ UNCHANGED <<otpKind, otpEmail, otpCode, otpRecord, lastResponse>>
    /\ UNCHANGED <<registered, sinceIssued, verified, notOtpVars>>

\* verify-otp 181-226: the verifier is looked up, registered if new, saved,
\* and the token returned
VerifyRegister(r) ==
    /\ otpPc[r] = "register"
    /\ registered' = registered \cup {OtpKey(r)}
    /\ Answer(r, LoginSuccessful(OtpKey(r)))
    /\ UNCHANGED <<otps, otpRecord, sinceIssued, guesses, verified, notOtpVars>>

\* an awaited call of verify-otp throws: inside verifyOTP it is caught and
\* answered as a failed verification (lines 129-132, route 174-179), past it
\* the route answers 500 (lines 228-236)
VerifyError(r, up) ==
    /\ FALSE \in up
    /\ otpPc[r] \in {"findOne", "deleteExpired", "deleteMaxed", "updateOne",
                     "deleteUsed", "register"}
    /\ Answer(r, IF otpPc[r] = "register" THEN OtpRouteError
                 ELSE OtpRejected(<<"Verification failed. Please try again.">>))
    /\ DropRecord(r)
    /\ UNCHANGED <<otps, registered, sinceIssued, guesses, verified, notOtpVars>>

\* OtpStep seconds pass; past the expiry every age acts alike
OtpTick ==
    /\ otps' = [k \in OtpKeys |->
                  IF otps[k] = NoOtp THEN NoOtp
                  ELSE [otps[k] EXCEPT !.age = IF @ + OtpStep > MaxAge THEN MaxAge
                                                ELSE @ + OtpStep]]
    /\ sinceIssued' = [k \in OtpKeys |->
                  IF sinceIssued[k] = Never THEN Never
                  ELSE IF sinceIssued[k] + OtpStep > OTP_COOLDOWN_SECONDS
                       THEN OTP_COOLDOWN_SECONDS
                  ELSE sinceIssued[k] + OtpStep]
    /\ UNCHANGED <<registered, otpPc, otpKind, otpEmail, otpCode, otpRecord,
                   lastResponse, guesses, verified, notOtpVars>>

OtpRequestStep(r, emails, submitted, generated, up) ==
    \/ OtpReceive(r, emails, submitted)
    \/ SendCanRequest(r, up)
    \/ SendStore(r, generated, up)
    \/ VerifyFindOne(r)
    \/ VerifyDeleteOne(r)
    \/ VerifyUpdateOne(r)
    \/ VerifyRegister(r)
    \/ VerifyError(r, up)

\* Concurrent send-otp and verify-otp requests for one company address, the
\* store failing at times; one code is submitted, either code is generated.
OtpNext ==
    \/ \E r \in OtpReqs :
          OtpRequestStep(r, {CompanyEmail}, {"111111"}, OtpCodes, BOOLEAN)
    \/ OtpTick

OtpSpec == Init /\ [][OtpNext]_vars

\* Requests made one after the other, for any address, as time passes, the
\* store answering every call.
OtpSeqNext ==
    \/ \E r \in OtpReqs :
          /\ \A q \in OtpReqs \ {r} : otpPc[q] = "idle"
          /\ OtpRequestStep(r, OtpEmails, OtpCodes, OtpCodes, {TRUE})
    \/ /\ \A q \in OtpReqs : otpPc[q] = "idle"
       /\ OtpTick

OtpSeqSpec == Init /\ [][OtpSeqNext]_vars

\* ------------------------------------------- the inactivity hook, mounted
notHookVars == <<ledgerVars, nameVars, otpVars>>

\* CHECK_INTERVAL passes.  A callback that is due runs when the event loop
\* gets to it: setInterval promises no sooner, not how much later (a
\* throttled tab, a suspended machine), so time may pass over a due callback.
Tick ==
    /\ elapsedTime' = IF elapsedTime = Unset THEN Unset
                      ELSE IF elapsedTime + CHECK_INTERVAL > MaxElapsed THEN MaxElapsed
                      ELSE elapsedTime + CHECK_INTERVAL
    /\ checkDue' = checkArmed
    /\ countdownDue' = IF countdownArmed THEN CHECK_INTERVAL \div COUNTDOWN_INTERVAL ELSE 0
    /\ checked' = NoCheck
    /\ UNCHANGED <<session, showWarning, timeRemaining, isLoggedIn, checkArmed,
                   countdownArmed, pathname, notHookVars>>

\* setInterval(checkInactivity, CHECK_INTERVAL), line 194
CheckFire ==
    /\ checkArmed /\ checkDue
    /\ LET after == CheckInactivity(Hook)
           final == Effects(Hook, after)
       IN  /\ SetHook(final)
           /\ checkDue' = FALSE
           /\ countdownDue' = IF final.countdownArmed /\ (final.showWarning = showWarning)
                              THEN countdownDue ELSE 0
    /\ UNCHANGED notHookVars

\* the countdown interval, lines 213-222
CountdownFire ==
    /\ countdownArmed /\ countdownDue > 0
    /\ LET newTime == timeRemaining - COUNTDOWN_INTERVAL
           after == IF newTime <= 0
                    THEN [Logout(Hook) EXCEPT !.timeRemaining = 0]
                    ELSE [Hook EXCEPT !.timeRemaining = newTime]
           final == Effects(Hook, after)
       IN  /\ SetHook(final)
           /\ checkDue' = IF final.showWarning = showWarning THEN checkDue ELSE FALSE
           /\ countdownDue' = IF final.countdownArmed THEN countdownDue - 1 ELSE 0
    /\ UNCHANGED notHookVars

\* a mousedown, keydown, scroll, ... reaches throttledUpdate, lines 140-146.
\* Its 5 s throttle is below the step of time: an event it drops follows a
\* recorded one within the same step.
Activity ==
    /\ session
    /\ Handle(UpdateActivity(Hook))
    /\ UNCHANGED notHookVars

\* "Stay Logged In" of the warning: extendSession, lines 81-85
StayLoggedIn ==
    /\ isLoggedIn /\ showWarning
    /\ Handle([UpdateActivity(Hook) EXCEPT !.showWarning = FALSE,
                                           !.timeRemaining = WARNING_THRESHOLD])
    /\ UNCHANGED notHookVars

\* "Logout" of the warning: onLogout = logout
ClickLogout ==
    /\ isLoggedIn /\ showWarning
    /\ Handle(Logout(Hook))
    /\ UNCHANGED notHookVars

\* a login on this page stores the session and calls
\* initializeActivityTracking, lines 244-247; the hook is not told
Login ==
    /\ ~session
    /\ session' = TRUE
    /\ elapsedTime' = 0
    /\ pathname' = "/dashboard"
    /\ checked' = NoCheck
    /\ UNCHANGED <<showWarning, timeRemaining, isLoggedIn, checkArmed, checkDue,
                   countdownArmed, countdownDue, notHookVars>>

HookNext ==
    \/ Tick
    \/ CheckFire
    \/ CountdownFire
    \/ Activity
    \/ StayLoggedIn
    \/ ClickLogout
    \/ Login

HookSpec == Init /\ [][HookNext]_vars

\* Time passes, and an interval that is running gets its callback run.  The
\* user owes nothing: no fairness on Activity, Login or the two buttons.
HookFairSpec ==
    /\ HookSpec
    /\ WF_vars(Tick)
    /\ WF_vars(CheckFire)
    /\ WF_vars(CountdownFire)

\* ================================================================== claims
\* what the claims read off the state
Exists(p) == attempts[p] # NoDoc
Blocked(p) == Exists(p) /\ attempts[p].isBlocked
AttemptCount(p) == IF Exists(p) THEN attempts[p].attemptCount ELSE 0

Done(r) == pc[r] = "done"
\* r applied its increment (it took the failure path past the pre-check)
Incremented(r) == attemptResult[r] # NoResult
\* r was answered Rejected or JustBlocked
AnsweredFailure(r) ==
    Done(r) /\ Incremented(r) /\ Kind(response[r]) \in {"Rejected", "Blocked"}
AnsweredJustBlocked(r) == AnsweredFailure(r) /\ attemptResult[r].justBlocked
AnsweredRejected(r) == AnsweredFailure(r) /\ Kind(response[r]) = "Rejected"
\* r was answered Blocked by the pre-check
AnsweredBlocked(r) ==
    Done(r) /\ ~Incremented(r) /\ response[r] = BlockedResponse
AnsweredAccepted(r) == Done(r) /\ response[r] = AcceptedResponse

NoReset(p) ==
    /\ adminRuns = 0
    /\ \A r \in Reqs : ~(AnsweredAccepted(r) /\ PairOf(r) = p)

GoodName == <<"s", ".", " ", "a">>

\* C1: under any interleaving of validate-employee requests for one pair, an
\* entry with isBlocked = true has attemptCount >= MAX_ATTEMPTS.
C1_BlockedImpliesMaxAttempts ==
    adminRuns = 0 =>
        \A p \in Pairs : Blocked(p) => attempts[p].attemptCount >= MAX_ATTEMPTS

\* C2: when N > MAX_ATTEMPTS concurrent failing requests hit one unblocked
\* pair and all are answered, exactly one of them is answered JustBlocked
\* (and so blockedAt is written exactly once).
C2_ExactlyOneJustBlocked ==
    \A p \in Pairs :
        (/\ NReq > MAX_ATTEMPTS
         /\ NoReset(p)
         /\ \A r \in Reqs : AnsweredFailure(r) /\ PairOf(r) = p)
        => Cardinality({r \in Reqs : AnsweredJustBlocked(r)}) = 1

\* C3: once a pair is blocked it stays blocked, and no request for it is
\* answered Accepted, until the unblock script resets it.
C3_BlockedUntilAdminReset ==
    [][\A p \in Pairs :
          (Blocked(p) /\ UNCHANGED <<adminPc, adminRuns>>)
          => /\ Exists(p)' /\ attempts'[p].isBlocked
             /\ \A r \in Reqs :
                   (PairOf(r) = p /\ response'[r] = AcceptedResponse)
                   => response[r] = AcceptedResponse]_vars

\* C4: after exactly MAX_ATTEMPTS consecutive attempts of a pair were answered
\* as failures, the next attempt for the pair, whatever its name, is answered
\* Blocked and the ledger is left as it was.
C4_NextAttemptBlocked ==
    [][\A r \in Reqs :
          (/\ pc[r] = "idle" /\ pc'[r] # "idle"
           /\ decoded'[r] # None
           /\ response'[r] # ErrorResponse
           /\ failedResponses[PairOf(r)'] = MAX_ATTEMPTS)
          => /\ pc'[r] = "done"
             /\ response'[r] = BlockedResponse
             /\ attempts' = attempts]_vars

C4_Witness ==
    \E r \in Reqs :
        /\ AnsweredBlocked(r)
        /\ body[r].name = GoodName
        /\ failedResponses[PairOf(r)] = MAX_ATTEMPTS
        /\ AttemptCount(PairOf(r)) = MAX_ATTEMPTS

\* C5: no state shows attemptCount >= MAX_ATTEMPTS with isBlocked still false.
C5_CountAndBlockAtomic ==
    \A p \in Pairs :
        (Exists(p) /\ attempts[p].attemptCount >= MAX_ATTEMPTS) => attempts[p].isBlocked

\* C6: with no success or reset in between, the stored attemptCount of a pair
\* equals the number of requests that applied a failing attempt to it.
C6_NoLostOrDoubleCount ==
    \A p \in Pairs :
        NoReset(p) =>
            AttemptCount(p) =
                Cardinality({r \in Reqs : Incremented(r) /\ PairOf(r) = p})

C6_Witness ==
    \E p \in Pairs :
        /\ NoReset(p)
        /\ AttemptCount(p) = NReq
        /\ \A r \in Reqs : AnsweredFailure(r) /\ PairOf(r) = p

\* C7: the k-th consecutive failure of a pair is answered Rejected with
\* remainingAttempts = MAX_ATTEMPTS - k when k < MAX_ATTEMPTS, and JustBlocked
\* (isBlocked, no remainingAttempts), with the pair blocked, when
\* k = MAX_ATTEMPTS.
C7_KthFailure ==
    [][\A r \in Reqs :
          (/\ pc[r] \in {"incrementVerificationAttempt", "findByIdAndUpdate"}
           /\ pc'[r] = "done"
           /\ response'[r] # ErrorResponse)
          => LET p == PairOf(r)
                 k == failedResponses'[p]
             IN  /\ k < MAX_ATTEMPTS =>
                       /\ Kind(response'[r]) = "Rejected"
                       /\ response'[r].remainingAttempts = MAX_ATTEMPTS - k
                       /\ "isBlocked" \notin DOMAIN response'[r]
                 /\ k = MAX_ATTEMPTS =>
                       /\ response'[r] = BlockedResponse
                       /\ attemptResult'[r].justBlocked
                       /\ Exists(p)' /\ attempts'[p].isBlocked]_vars

C7_Witness ==
    \E r1, r2, r3 \in Reqs :
        /\ AnsweredRejected(r1) /\ response[r1].remainingAttempts = 2
        /\ AnsweredRejected(r2) /\ response[r2].remainingAttempts = 1
        /\ AnsweredJustBlocked(r3)
        /\ PairOf(r1) = PairOf(r3) /\ PairOf(r2) = PairOf(r3)
        /\ Blocked(PairOf(r3))

\* C8: a successful validation on an unblocked pair leaves attemptCount = 0
\* and isBlocked = false, and the failing attempt that follows it reports a
\* count of 1 (remainingAttempts = MAX_ATTEMPTS - 1).
C8_SuccessResets ==
    /\ [][\A r \in Reqs :
            (pc[r] = "resetVerificationAttempt" /\ response'[r] = AcceptedResponse)
            => LET p == PairOf(r)
               IN  Exists(p)' => /\ attempts'[p].attemptCount = 0
                                 /\ ~attempts'[p].isBlocked]_vars
    /\ [](\A r \in 2..NReq :
            (/\ AnsweredAccepted(r - 1)
             /\ AnsweredFailure(r)
             /\ PairOf(r) = PairOf(r - 1))
            => /\ attemptResult[r].attemptCount = 1
               /\ AnsweredRejected(r)
               /\ response[r].remainingAttempts = MAX_ATTEMPTS - 1)

C8_Witness ==
    \E r \in 3..NReq :
        /\ AnsweredRejected(r - 2) /\ attemptResult[r - 2].attemptCount = 2
        /\ AnsweredAccepted(r - 1)
        /\ AnsweredRejected(r) /\ response[r].remainingAttempts = 2
        /\ PairOf(r - 2) = PairOf(r) /\ PairOf(r - 1) = PairOf(r)

\* C9: a request for a pair that is already blocked is answered Blocked (403,
\* isBlocked) without the employee being looked up and with the ledger left
\* as it was.
C9_BlockedPreCheckReadOnly ==
    [][\A r \in Reqs :
          (/\ pc[r] = "idle" /\ pc'[r] # "idle"
           /\ decoded'[r] # None
           /\ response'[r] # ErrorResponse
           /\ Blocked(PairOf(r)'))
          => /\ pc'[r] = "done"
             /\ response'[r] = BlockedResponse
             /\ response'[r].status = 403 /\ response'[r].isBlocked
             /\ employee'[r] = Unread
             /\ attempts' = attempts]_vars

C9_Witness ==
    \E r \in Reqs :
        /\ AnsweredBlocked(r)
        /\ employee[r] = Unread
        /\ Blocked(PairOf(r))

\* C10: for the same ledger state, a failing request whose employee ID is not
\* found and one whose name mismatches get the same response.
C10_NotFoundIndistinguishable ==
    \A r1, r2 \in Reqs :
        (/\ AnsweredFailure(r1) /\ AnsweredFailure(r2)
         /\ ~employee[r1].found /\ employee[r2].found
         /\ attemptResult[r1].attemptCount = attemptResult[r2].attemptCount
         /\ attemptResult[r1].isBlocked = attemptResult[r2].isBlocked
         /\ attemptResult[r1].justBlocked = attemptResult[r2].justBlocked)
        => response[r1] = response[r2]

\* C11: a request rejected before the blocked pre-check (no token, an invalid
\* token, a role other than verifier, or no employeeId or name) is answered
\* with an error response and leaves the attempt ledger as it was.
C11_RejectedEarlyNoMutation ==
    [][\A r \in Reqs :
          (/\ pc[r] = "idle" /\ pc'[r] # "idle"
           /\ \/ decoded'[r] = None
              \/ body'[r].employeeId = <<>>
              \/ body'[r].name = <<>>)
          => /\ pc'[r] = "done"
             /\ response'[r] \in {TokenRequired, InvalidToken, VerifierRequired,
                                  FieldsRequired}
             /\ response'[r].status \in {400, 401, 403}
             /\ ~response'[r].success
             /\ attempts' = attempts]_vars

C11_Witness ==
    \E r1, r2, r3 \in Reqs :
        /\ AnsweredRejected(r1)
        /\ Done(r2) /\ response[r2] = FieldsRequired /\ body[r2].name = <<>>
        /\ Done(r3) /\ response[r3] = VerifierRequired
        /\ r1 < r2 /\ r1 < r3
        /\ AttemptCount(PairOf(r1)) = 1

\* C12: a ledger write that fails during a failing attempt (the increment or
\* the write that sets the block) is answered 500, never Rejected or
\* Accepted; a Rejected or JustBlocked answer is given only by a request
\* whose increment of attemptCount was applied to the ledger.
C12_FailureBackedByIncrement ==
    [][\A r \in Reqs :
          (/\ pc[r] \in {"incrementVerificationAttempt", "findByIdAndUpdate"}
           /\ pc'[r] = "done")
          => LET p == PairOf(r)
             IN  /\ response'[r] # AcceptedResponse
                 /\ \/ /\ response'[r].status = 500
                       /\ attempts' = attempts
                    \/ /\ pc[r] = "incrementVerificationAttempt"
                       /\ Kind(response'[r]) = "Rejected"
                       /\ AttemptCount(p)' = AttemptCount(p) + 1
                       /\ Incremented(r)'
                       /\ attemptResult'[r].attemptCount = AttemptCount(p)'
                    \/ /\ pc[r] = "findByIdAndUpdate"
                       /\ response'[r] = BlockedResponse
                       /\ Incremented(r)
                       /\ attemptResult[r].attemptCount >= MAX_ATTEMPTS]_vars

C12_Witness ==
    \E r1, r2 \in Reqs :
        /\ Done(r1) /\ response[r1] = ErrorResponse
        /\ employee[r1].read /\ ~Incremented(r1)
        /\ ~(employee[r1].found /\ NamesMatch(body[r1].name, employee[r1].name))
        /\ Done(r2) /\ response[r2] = ErrorResponse
        /\ Incremented(r2) /\ attemptResult[r2].attemptCount = MAX_ATTEMPTS
        /\ ~Blocked(PairOf(r2))

\* C13: a request on one pair never changes the ledger entry of another pair.
C13_OtherPairsUntouched ==
    [][\A r \in Reqs :
          (pc'[r] # pc[r] /\ decoded'[r] # None)
          => \A q \in Pairs :
                q # <<decoded'[r], NormalizeEmployeeId(body'[r].employeeId)>>
                => attempts'[q] = attempts[q]]_vars

C13_Witness ==
    \E r1, r2 \in Reqs :
        /\ AnsweredRejected(r1) /\ AnsweredRejected(r2)
        /\ PairOf(r1) # PairOf(r2)
        /\ AttemptCount(PairOf(r1)) = 2
        /\ AttemptCount(PairOf(r2)) = 1

\* the claim's reading of the comparison, character by character
LowerCased(str) ==
    [i \in 1..Len(str) |->
        CASE str[i] = "S" -> "s"
          [] str[i] = "A" -> "a"
          [] OTHER -> str[i]]

Trimmed(str) ==
    LET kept == {i \in 1..Len(str) : str[i] # " "}
    IN  IF kept = {} THEN <<>>
        ELSE SubSeq(str, CHOOSE i \in kept : \A j \in kept : i <= j,
                         CHOOSE i \in kept : \A j \in kept : i >= j)

RECURSIVE Without(_, _)
Without(str, ch) ==
    IF str = <<>> THEN <<>>
    ELSE IF Head(str) = ch THEN Without(Tail(str), ch)
    ELSE <<Head(str)>> \o Without(Tail(str), ch)

Canonical(str) == Trimmed(LowerCased(str))

ShouldAccept(name, official) ==
    \/ Canonical(name) = Canonical(official)
    \/ Without(Canonical(name), ".") = Without(Canonical(official), ".")
    \/ Without(Canonical(name), " ") = Without(Canonical(official), " ")

\* C14: the comparison accepts a submitted name exactly when, both names
\* lower-cased and trimmed, they are identical, or identical with every period
\* removed from both, or identical with every space removed from both; in
\* every other case the handler goes on to the failure path.
C14_NamesMatchExactly ==
    cmpPc # "compare" =>
        /\ namesMatch = ShouldAccept(cmpName, cmpOfficial)
        /\ ShouldAccept(cmpName, cmpOfficial) => cmpNext = "resetVerificationAttempt"
        /\ ~ShouldAccept(cmpName, cmpOfficial) => cmpNext = "incrementVerificationAttempt"

C14_Witness ==
    /\ cmpPc = "compared"
    /\ cmpName = <<"S", ".", "a">>
    /\ cmpOfficial = <<" ", "s", "a">>
    /\ namesMatch
    /\ Canonical(cmpName) # Canonical(cmpOfficial)

\* C15: keying is idempotent: the lower-cased and trimmed key of a name, its
\* period-stripped key and its space-stripped key each come out unchanged
\* when keyed again the same way.
C15_KeysIdempotent ==
    cmpPc = "rekeyed" => cmpRekeyed = cmpKeys

\* C16: a session that has seen no activity for INACTIVITY_TIMEOUT is
\* eventually logged out (session keys removed, router at "/") unless activity
\* is recorded after all; this holds for every session, also one begun after
\* an earlier logout.
C16_IdleSessionLoggedOut ==
    (session /\ elapsedTime >= INACTIVITY_TIMEOUT)
        ~> ((~session /\ pathname = "/") \/ (session /\ elapsedTime < INACTIVITY_TIMEOUT))

\* C17: right after an inactivity check of a logged-in user that computed the
\* remaining time r: the user is logged out when r <= 0, the warning shows
\* with timeRemaining = r when 0 < r <= WARNING_THRESHOLD, and no warning
\* shows when r > WARNING_THRESHOLD.
C17_CheckOutcome ==
    checked.made =>
        LET r == checked.remainingTime
        IN  /\ r <= 0 => ~session /\ pathname = "/" /\ ~showWarning
            /\ (0 < r /\ r <= WARNING_THRESHOLD) =>
                    session /\ showWarning /\ timeRemaining = r
            /\ r > WARNING_THRESHOLD => session /\ ~showWarning

C17_Witness ==
    /\ checked.made
    /\ checked.remainingTime = WARNING_THRESHOLD
    /\ showWarning
    /\ timeRemaining = WARNING_THRESHOLD
    /\ isLoggedIn

\* C18: at most MAX_OTP_ATTEMPTS submitted codes are ever compared with one
\* stored OTP, whether the verifyOTP calls come one after the other or
\* together.
C18_AtMostMaxGuesses ==
    \A k \in OtpKeys : guesses[k] <= MAX_OTP_ATTEMPTS

\* C19: send-otp answers 429 and stores nothing when an OTP was issued for
\* the email less than 60 seconds before; two OTPs issued for one email are
\* at least 60 seconds apart.
C19_IssuesSixtySecondsApart ==
    [][\A r \in OtpReqs :
          LET k == OtpKey(r)
              recent == sinceIssued[k] # Never /\ sinceIssued[k] < OTP_COOLDOWN_SECONDS
          IN  /\ (otpPc[r] = "canRequestOTP" /\ otpPc'[r] # "canRequestOTP" /\ recent)
                  => /\ lastResponse'.response.status = 429
                     /\ otpPc'[r] = "idle"
              /\ (otpPc[r] = "storeOTP" /\ otps'[k] # otps[k]) => ~recent]_vars

\* the addresses of OtpEmails on the blocked domains, whatever their case
PersonalEmails == {<<"a", "@", "gmail", ".", "com">>, <<"a", "@", "Gmail", ".", "COM">>}
PersonalKey == <<"a", "@", "gmail", ".", "com">>

\* C20: no OTP is ever stored for an email on a blocked domain, in any case
\* of letters, and so verify-otp never registers a verifier or issues a
\* token for such an email.
C20_PersonalDomainsBlocked ==
    /\ otps[PersonalKey] = NoOtp
    /\ PersonalKey \notin registered
    /\ \A r \in OtpReqs :
          otpEmail[r] \in PersonalEmails => otpPc[r] \in {"idle", "findOne"}
    /\ lastResponse.email \in PersonalEmails
          => /\ lastResponse.response.status = 400
             /\ ~lastResponse.response.success

C20_Witness ==
    /\ lastResponse.kind = "send"
    /\ lastResponse.email = <<"a", "@", "Gmail", ".", "COM">>
    /\ lastResponse.response = PersonalEmail
    /\ otps[ToLowerCase(CompanyEmail)] # NoOtp
    /\ ToLowerCase(CompanyEmail) \in registered

\* C21: verifyOTP never succeeds when the time is later than the stored
\* expiresAt (OTP_EXPIRY_MINUTES after the store), and a verification
\* attempted after the expiry deletes the OTP record.
C21_ExpiredNeverVerifies ==
    [][\A r \in OtpReqs :
          LET k == OtpKey(r)
              late == otps[k] # NoOtp /\ otps[k].age > OTP_EXPIRY_MINUTES * 60
          IN  /\ (otpPc[r] = "findOne" /\ otpPc'[r] # "findOne" /\ late)
                  => otpPc'[r] = "deleteExpired"
              /\ (otpPc[r] = "deleteExpired" /\ otpPc'[r] # "deleteExpired")
                  => /\ otps'[k] = NoOtp
                     /\ ~lastResponse'.response.success
                     /\ otpPc'[r] = "idle"
              /\ (otpPc'[r] \in {"deleteUsed", "register"} /\ otpPc[r] # otpPc'[r])
                  => ~late
              /\ lastResponse'.kind = "verify" /\ lastResponse'.response.success
                    /\ lastResponse' # lastResponse /\ otpPc[r] # "idle"
                    /\ otpPc'[r] = "idle"
                  => otpPc[r] = "register"]_vars

\* the right code is submitted after the expiry and the record is deleted
C21_Witness ==
    /\ lastResponse.kind = "verify"
    /\ lastResponse.response = OtpRejected(<<"OTP has expired. Please request a new one.">>)
    /\ otps[ToLowerCase(lastResponse.email)] = NoOtp
    /\ sinceIssued[ToLowerCase(lastResponse.email)] = OTP_COOLDOWN_SECONDS

\* C22: the three formatting variants of a name (with a space, with a period
\* and a space, with neither) are mutually tolerated: whichever is the
\* official name, submitting any of the three is accepted.
C22_VariantsTolerated ==
    (cmpPc # "compare" /\ cmpName \in NameVariants /\ cmpOfficial \in NameVariants)
        => (namesMatch /\ cmpNext = "resetVerificationAttempt")

\* C23: every ledger entry is keyed by a non-empty, trimmed, upper-cased
\* employee ID; no request, such as one whose employeeId is only whitespace,
\* creates an entry under an empty key.
C23_LedgerKeyNonEmpty ==
    \A p \in Pairs :
        attempts[p] # NoDoc
            => /\ p[2] # <<>>
               /\ Head(p[2]) # " " /\ p[2][Len(p[2])] # " "
               /\ \A i \in 1..Len(p[2]) : p[2][i] \notin DOMAIN UpperOf

\* C24: every validation attempt that reaches the gate for a pair with a
\* ledger entry, whether answered Rejected, JustBlocked, Blocked or Accepted,
\* leaves the entry's lastAttemptAt at the time of that attempt.
C24_LastAttemptAtEveryAttempt ==
    [][\A r \in Reqs :
          (/\ pc[r] # "done"
           /\ (AnsweredFailure(r) \/ AnsweredBlocked(r) \/ AnsweredAccepted(r))')
          => LET p == <<decoded'[r], NormalizeEmployeeId(body'[r].employeeId)>>
             IN  attempts'[p] # NoDoc => attempts'[p].lastAttemptAt = r]_vars

\* C25: a run of the unblock-verifier script for the email of an existing
\* verifier removes every ledger entry of that verifier (none of the
\* verifier's pairs is blocked after it, each starts again from zero) and
\* leaves the entries of all other verifiers as they were; for an unknown
\* email it changes nothing.
C25_UnblockClearsOneVerifier ==
    [][(adminRuns' # adminRuns \/ adminPc' # adminPc \/ adminLog' # adminLog)
          => /\ \A p \in Pairs : p[1] # adminVerifier => attempts'[p] = attempts[p]
             /\ adminLog' = NotFound => attempts' = attempts
             /\ adminLog' = Unblocked
                  => \A p \in Pairs :
                        p[1] = adminVerifier
                            => /\ ~Exists(p)' /\ ~Blocked(p)' /\ AttemptCount(p)' = 0]_vars

\* the script has run for a verifier one of whose pairs was blocked
C25_Witness ==
    /\ adminLog = Unblocked
    /\ \E r \in Reqs : AnsweredJustBlocked(r) /\ ~Exists(PairOf(r))

\* C26: every Rejected response carries remainingAttempts between 1 and
\* MAX_ATTEMPTS - 1, under any interleaving of concurrent failing requests
\* for one pair, and none is returned for a pair whose stored attemptCount
\* was already MAX_ATTEMPTS or more.
C26_RemainingAttemptsPositive ==
    [][\A r \in Reqs :
          (~Done(r) /\ AnsweredRejected(r)')
          => /\ response'[r].remainingAttempts \in 1..(MAX_ATTEMPTS - 1)
             /\ AttemptCount(<<decoded[r], NormalizeEmployeeId(body[r].employeeId)>>)
                    < MAX_ATTEMPTS]_vars

\* C27: a stored OTP is single-use: at most one verifyOTP call returns
\* success for one stored OTP, also when calls with the right code run
\* together.
C27_OtpSingleUse ==
    \A k \in OtpKeys : verified[k] <= 1

\* C28: once storeOTP has stored a new OTP for an email the OTP issued before
\* no longer verifies, and a verifyOTP call that is checking the old OTP
\* neither deletes nor consumes the new one, under any interleaving.
C28_OldOtpLeavesNewAlone ==
    [][\A r \in OtpReqs :
          (/\ otpPc'[r] # otpPc[r]
           /\ otpRecord[r] # NoOtp
           /\ otpRecord[r].replaced
           /\ otps[OtpKey(r)] # NoOtp
           /\ otps[OtpKey(r)].otp # otpRecord[r].otp)
          => /\ otps'[OtpKey(r)] = otps[OtpKey(r)]
             /\ otpPc'[r] # "deleteUsed"]_vars

\* C29: the periodic inactivity check stays scheduled for as long as the hook
\* is mounted: after any sequence of checks, activity, warnings and logouts
\* the interval of checkIntervalRef is running.
C29_CheckStaysScheduled ==
    checkArmed

====
